---- MODULE Spec2Model ----
(***************************************************************************)
(* Model of the playwright-unified-framework utilities:                    *)
(*   - AuthManager's API token cache (src/utils/BrowserManager.js 235-341) *)
(*   - BrowserManager's engine selection and session-state file paths      *)
(*     (src/utils/BrowserManager.js 18-128)                                *)
(*   - AuthManager.authenticate and setupTestEnvironment                   *)
(*     (src/utils/BrowserManager.js 149-223)                               *)
(*   - apiUtils' token-authenticated requests (src/unnamed/part_000)       *)
(*   - getApiToken calls that overlap, and injectTokenToBrowserContext     *)
(*     (src/utils/BrowserManager.js 260-325)                               *)
(*                                                                         *)
(* JavaScript values are modelled as strings.  null and undefined are the  *)
(* two sentinels Null and Undefined, which are distinct from every string  *)
(* the program handles; "" is the empty string.  All three are falsy.      *)
(***************************************************************************)
EXTENDS Integers, Sequences, FiniteSets, TLC

VARIABLES
    apiToken,          \* AuthManager.apiToken
    apiBaseUrl,        \* AuthManager.apiBaseUrl
    apiLoginEndpoint,  \* AuthManager.apiLoginEndpoint
    call,              \* the last completed AuthManager call, as its caller saw it
    firstOk,           \* first successful getApiToken since the last clear/force
    lastFail,          \* the last failure a caller got since the last token it got
    flows,             \* the getApiToken calls of two concurrent callers, each
                       \* at one of its awaits or at its end
    argv,              \* process.argv
    env,               \* process.env
    selection,         \* the last completed BrowserManager call
    files,             \* the session-state files on disk, by path
    auth,              \* the authenticate call in progress or last completed
    setup,             \* the last setupTestEnvironment call completed since
                       \* the last authenticate call began
    token,             \* apiUtils.token
    authManager,       \* apiUtils.authManager
    request,           \* the last apiUtils request completed since the last
                       \* direct call of an AuthManager token method
    browserContext     \* a browser context: its init scripts, the document
                       \* loaded in its page, the last injection into it

vars == << apiToken, apiBaseUrl, apiLoginEndpoint, call, firstOk, lastFail,
           flows, argv, env, selection, files, auth, setup, token, authManager,
           request, browserContext >>

tokenVars ==
    << apiToken, apiBaseUrl, apiLoginEndpoint, call, firstOk, lastFail, flows >>

browserVars == << argv, env, selection >>

sessionVars == << files, auth, setup >>

clientVars == << token, authManager, request, browserContext >>

\* A direct call of an AuthManager token method leaves everything outside the
\* token cache as it is, and closes the window of `request`.
OutsideTokenCache ==
    /\ request' = [op |-> "none"]
    /\ UNCHANGED << flows, browserVars, sessionVars, token, authManager,
                    browserContext >>

----------------------------------------------------------------------------
(* JavaScript values *)

Null == "<null>"

Undefined == "<undefined>"

EmptyStr == ""

\* ToBoolean on the values of this model: null, undefined and "" are falsy.
Truthy(v) == v \notin {Null, Undefined, EmptyStr}

\* a || b
Or(a, b) == IF Truthy(a) THEN a ELSE b

----------------------------------------------------------------------------
(* The login server: what fetch() can produce *)

TokenFields == {"token", "access_token", "jwt", "accessToken"}

\* A token string the server may put in field f; the fields carry different
\* strings, so that a returned token tells which field it was read from.
TokenIn(f) == "tok:" \o f

\* A field of the JSON body is absent (reads as undefined), the empty string,
\* or a token string.
FieldValues(f) == {Undefined, EmptyStr, TokenIn(f)}

Bodies == {b \in [TokenFields -> {Undefined, EmptyStr} \cup {TokenIn(f) : f \in TokenFields}] :
             \A f \in TokenFields : b[f] \in FieldValues(f)}

\* No request was made, so there is nothing to answer.
NoResponse == [type |-> "none", message |-> ""]

Responses ==
    \* fetch() rejects
    {[type |-> "throw", message |-> "fetch failed"]}
    \* a response with ok = false
    \cup {[type |-> "http", ok |-> FALSE, status |-> s[1], statusText |-> s[2]] :
            s \in {<<"401", "Unauthorized">>, <<"500", "">>}}
    \* a response with ok = true whose body is not JSON: response.json() rejects
    \cup {[type |-> "badjson", message |-> "Unexpected token < in JSON at position 0"]}
    \* a response with ok = true and a JSON object as body
    \cup {[type |-> "http", ok |-> TRUE, body |-> b] : b \in Bodies}

----------------------------------------------------------------------------
(* AuthManager: API token cache *)

BaseUrls == {Null, "https://api.a", "https://api.b"}

\* Undefined as second argument selects the default parameter value '/login'.
LoginEndpointArgs == {Undefined, Null, "/auth/login"}

ConfigErrorMessage == "API credentials not set. Call setApiCredentials() first."

NoTokenMessage == "No token found in API response. Check your API response format."

LoginFailedMessage(response) ==
    "API login failed: " \o response.status \o " " \o response.statusText

\* Variant: the catch block drops the message of the error it caught.
WrapMessageDropsCause(message) == "Failed to get API token"

\* line 295
WrapMessage(message) == "Failed to get API token: " \o message

\* Variant: the fields are probed in the opposite order.
ExtractTokenLastWins(body) ==
    Or(Or(Or(body["accessToken"], body["jwt"]), body["access_token"]), body["token"])

\* line 287: responseBody.token || responseBody.access_token || responseBody.jwt
\*   || responseBody.accessToken
ExtractToken(body) ==
    Or(Or(Or(body["token"], body["access_token"]), body["jwt"]), body["accessToken"])

LoginUrl(base, endpoint) == base \o endpoint

CredentialsSet(base, endpoint) == Truthy(base) /\ Truthy(endpoint)

\* The outcome of the fetch branch of getApiToken (lines 269-296) on `response`:
\* the cache afterwards, what the caller gets, and the cause of a failure.
FetchOutcome(cache, response) ==
    IF response.type \in {"throw", "none"} THEN
        \* fetch rejected: caught at line 294
        [cache |-> cache, kind |-> "error", cause |-> "network",
         value |-> WrapMessage(response.message)]
    ELSE IF response.type = "http" /\ ~response.ok THEN
        \* lines 281-283
        [cache |-> cache, kind |-> "error", cause |-> "transport",
         value |-> WrapMessage(LoginFailedMessage(response))]
    ELSE IF response.type = "badjson" THEN
        \* line 285 rejects
        [cache |-> cache, kind |-> "error", cause |-> "parse",
         value |-> WrapMessage(response.message)]
    ELSE LET extracted == ExtractToken(response.body)   \* line 287 assigns it
         IN  IF Truthy(extracted) THEN
                 [cache |-> extracted, kind |-> "ok", cause |-> "none",
                  value |-> extracted]
             ELSE
                 \* lines 289-291: the assignment of line 287 stays
                 [cache |-> extracted, kind |-> "error", cause |-> "extraction",
                  value |-> WrapMessage(NoTokenMessage)]

\* Variant: getApiToken without the cache check of lines 265-267.
GetApiTokenNoCache(cache, base, endpoint, response) ==
    IF ~CredentialsSet(base, endpoint) THEN
        [cache |-> cache, kind |-> "error", cause |-> "config",
         value |-> ConfigErrorMessage, sent |-> << >>]
    ELSE
        [sent |-> << LoginUrl(base, endpoint) >>] @@ FetchOutcome(cache, response)

\* Variant: getApiToken without the configuration check of lines 261-263.
GetApiTokenNoConfigCheck(cache, base, endpoint, response) ==
    IF Truthy(cache) THEN
        [cache |-> cache, kind |-> "ok", cause |-> "none", value |-> cache,
         sent |-> << >>]
    ELSE
        [sent |-> << LoginUrl(Or(base, "https://localhost"), Or(endpoint, "/login")) >>]
            @@ FetchOutcome(cache, response)

\* getApiToken (lines 260-297) run on the fields (cache, base, endpoint), the
\* login server answering `response` if it is asked.
GetApiTokenOn(cache, base, endpoint, response) ==
    IF ~CredentialsSet(base, endpoint) THEN
        \* lines 261-263
        [cache |-> cache, kind |-> "error", cause |-> "config",
         value |-> ConfigErrorMessage, sent |-> << >>]
    ELSE IF Truthy(cache) THEN
        \* lines 265-267
        [cache |-> cache, kind |-> "ok", cause |-> "none", value |-> cache,
         sent |-> << >>]
    ELSE
        [sent |-> << LoginUrl(base, endpoint) >>] @@ FetchOutcome(cache, response)

\* Variant: forceNewToken without the assignment of line 339.
ForceNewTokenKeepCache(cache, base, endpoint, response) ==
    GetApiTokenOn(cache, base, endpoint, response)

\* forceNewToken (lines 338-341): clear, then getApiToken.
ForceNewTokenOn(cache, base, endpoint, response) ==
    GetApiTokenOn(Null, base, endpoint, response)

\* Variant: clearApiToken leaves the field as it is.
ClearedKeep(cache) == cache

\* clearApiToken (lines 330-332)
Cleared(cache) == Null

NoCall == [op |-> "none"]

\* A call that returns `value` without a request, leaving `cache` in the cache.
Returned(cache, value) ==
    [cache |-> cache, kind |-> "ok", cause |-> "none", value |-> value, sent |-> << >>]

\* The failures of getApiToken that its callers tell apart.
FailureCauses == {"config", "transport", "extraction"}

NoFail == [cause |-> "none", message |-> ""]

\* What the caller of a completed call observed, with the state it was made in.
CallRecord(op, r, response) ==
    [op |-> op, kind |-> r.kind, cause |-> r.cause, value |-> r.value,
     sent |-> r.sent,
     response |-> response,
     \* the cache before the call: did it hold a token, and did the call change it
     preCached |-> Truthy(apiToken),
     cacheChanged |-> (r.cache # apiToken),
     \* the call before this one was clearApiToken, on a cache with a token or not
     afterClear |-> IF call.op # "clearApiToken" THEN "no"
                    ELSE IF call.preCached THEN "token" ELSE "empty",
     \* the call before this one was a setApiCredentials that changed the
     \* base URL or the login path
     afterSet |-> (call.op = "setApiCredentials" /\ call.changed),
     \* for a failed call, the failure its caller got before
     prevFail |-> IF r.kind = "error" THEN lastFail ELSE NoFail]

Observed(r) ==
    lastFail' = IF r.kind = "error" THEN [cause |-> r.cause, message |-> r.value]
                ELSE NoFail

\* A document with no init script run in it, and a browser context that has
\* loaded no document and has no init script.
NoWindow == [apiToken |-> Undefined, getAuthHeaders |-> Undefined]

NoContext ==
    [scripts |-> << >>, loaded |-> FALSE, installed |-> 0, window |-> NoWindow,
     injection |-> NoCall]

\* The callers that share one AuthManager, and a caller with no call made.
Callers == {"first", "second"}

NoFlow ==
    [pc |-> "idle", response |-> NoResponse, kind |-> "none", value |-> "",
     sent |-> << >>, overlapped |-> FALSE, latest |-> FALSE]

NoFlows == [c \in Callers |-> NoFlow]

InitToken ==
    \* _initApiTokenCache (lines 240-244)
    /\ apiToken = Null
    /\ apiBaseUrl = Null
    /\ apiLoginEndpoint = Null
    /\ call = NoCall
    /\ firstOk = NoCall
    /\ lastFail = NoFail
    /\ flows = NoFlows

\* The record of a setApiCredentials call that leaves `cache` in the cache and
\* sets the base URL and the login path to `base` and `endpoint`.
CredentialsCall(cache, base, endpoint) ==
    CallRecord("setApiCredentials", Returned(cache, Undefined), NoResponse)
        @@ [changed |-> (base # apiBaseUrl \/ endpoint # apiLoginEndpoint)]

\* Variant: new credentials drop the token obtained with the old ones.
SetApiCredentialsDropsToken ==
    \E baseUrl \in BaseUrls, loginEndpoint \in LoginEndpointArgs :
        LET endpoint == IF loginEndpoint = Undefined THEN "/login"
                        ELSE loginEndpoint
        IN  /\ apiBaseUrl' = baseUrl
            /\ apiLoginEndpoint' = endpoint
            /\ apiToken' = Null
            /\ call' = CredentialsCall(Null, baseUrl, endpoint)
            /\ UNCHANGED << firstOk, lastFail >>
            /\ OutsideTokenCache

\* setApiCredentials(baseUrl, loginEndpoint = '/login') (lines 251-254)
SetApiCredentials ==
    \E baseUrl \in BaseUrls, loginEndpoint \in LoginEndpointArgs :
        LET endpoint == IF loginEndpoint = Undefined THEN "/login"
                        ELSE loginEndpoint
        IN  /\ apiBaseUrl' = baseUrl
            /\ apiLoginEndpoint' = endpoint
            /\ call' = CredentialsCall(apiToken, baseUrl, endpoint)
            /\ UNCHANGED << apiToken, firstOk, lastFail >>
            /\ OutsideTokenCache

\* The answers the login server can give to a call that makes the requests
\* `sent`: none when it is not asked.
Answers(sent) == IF sent = << >> THEN {NoResponse} ELSE Responses

GetApiToken ==
    \E response \in Answers(GetApiTokenOn(apiToken, apiBaseUrl, apiLoginEndpoint,
                                          NoResponse).sent) :
        LET r == GetApiTokenOn(apiToken, apiBaseUrl, apiLoginEndpoint, response)
        IN
            /\ apiToken' = r.cache
            /\ call' = CallRecord("getApiToken", r, response)
            /\ firstOk' = IF r.kind = "ok" /\ firstOk = NoCall
                          THEN [op |-> "getApiToken", value |-> r.value,
                                requests |-> Len(r.sent)]
                          ELSE firstOk
            /\ Observed(r)
            /\ UNCHANGED << apiBaseUrl, apiLoginEndpoint >>
            /\ OutsideTokenCache

ForceNewToken ==
    \E response \in Answers(ForceNewTokenOn(apiToken, apiBaseUrl, apiLoginEndpoint,
                                            NoResponse).sent) :
        LET r == ForceNewTokenOn(apiToken, apiBaseUrl, apiLoginEndpoint, response)
        IN
            /\ apiToken' = r.cache
            /\ call' = CallRecord("forceNewToken", r, response)
            /\ firstOk' = NoCall
            /\ Observed(r)
            /\ UNCHANGED << apiBaseUrl, apiLoginEndpoint >>
            /\ OutsideTokenCache

ClearApiToken ==
    /\ apiToken' = Cleared(apiToken)
    /\ call' = CallRecord("clearApiToken", Returned(Cleared(apiToken), Undefined),
                           NoResponse)
    /\ firstOk' = NoCall
    /\ UNCHANGED << apiBaseUrl, apiLoginEndpoint, lastFail >>
    /\ OutsideTokenCache

----------------------------------------------------------------------------
(* BrowserManager: engine selection *)

SupportedEngines == {"chromium", "firefox", "webkit"}

\* The launchable BrowserType object of an engine; BrowserType.name() gives the
\* engine back.
EngineHandle(engine) == "BrowserType:" \o engine

\* The function Object, which every plain object inherits as 'constructor'.
ObjectConstructor == "function Object"

\* Names that appear as arguments, on the command line and in the environment.
Names == {"chromium", "Chromium", "firefox", "Firefox", "webkit", "WEBKIT",
          "edge", "Edge", "constructor"}

\* Variant: the name is looked up as it is written.
ToLowerCaseIdentity(name) == name

\* String.prototype.toLowerCase on Names.
ToLowerCase(name) ==
    CASE name = "Chromium" -> "chromium"
      [] name = "Firefox" -> "firefox"
      [] name = "WEBKIT" -> "webkit"
      [] name = "Edge" -> "edge"
      [] OTHER -> name

\* this.browserTypes[key] (lines 6-10): the three own properties, and what a
\* plain object inherits from Object.prototype.
BrowserTypes(key) ==
    IF key \in SupportedEngines THEN EngineHandle(key)
    ELSE IF key = "constructor" THEN ObjectConstructor
    ELSE Undefined

EnvVars == {"PLAYWRIGHT_PROJECT", "npm_config_project", "PLAYWRIGHT_BROWSER",
            "BROWSER", "npm_config_browser"}

\* An environment variable is unset (reads as undefined), empty, or holds a name.
EnvValues == {Undefined, EmptyStr, "Firefox", "webkit", "edge"}

Environments == [EnvVars -> EnvValues]

\* process.argv
ArgvChoices ==
    { << "node", "playwright", "test" >>,
      << "node", "playwright", "test", "--project", "firefox" >>,
      << "node", "playwright", "test", "--project", "Edge", "--project", "webkit" >>,
      << "node", "playwright", "test", "--project=webkit" >>,
      << "node", "playwright", "test", "--project", "", "--project", "firefox" >>,
      << "node", "playwright", "test", "--headed", "--project" >> }

ExplicitNames == {Null, "firefox", "WEBKIT", "Chromium", "edge", "constructor"}

\* args.findIndex(arg => arg === '--project'), 0-based, -1 when there is none
FindProjectIndex(args) ==
    IF \E i \in 1..Len(args) : args[i] = "--project"
    THEN (CHOOSE i \in 1..Len(args) :
              /\ args[i] = "--project"
              /\ \A j \in 1..(i - 1) : args[j] # "--project") - 1
    ELSE -1

\* args[index] for a 0-based index
ArgAt(args, index) ==
    IF index + 1 \in 1..Len(args) THEN args[index + 1] ELSE Undefined

\* Variant: the environment is consulted before the command line.
ProjectNameEnvFirst(args, e) ==
    Or(Or(e["PLAYWRIGHT_PROJECT"], e["npm_config_project"]),
       ArgAt(args, FindProjectIndex(args) + 1))

\* lines 31-39
ProjectName(args, e) ==
    LET projectIndex == FindProjectIndex(args)
    IN  IF projectIndex # -1 /\ Truthy(ArgAt(args, projectIndex + 1))
        THEN ArgAt(args, projectIndex + 1)
        ELSE Or(e["PLAYWRIGHT_PROJECT"], e["npm_config_project"])

\* line 51
FallbackBrowserName(e) ==
    Or(Or(Or(e["PLAYWRIGHT_BROWSER"], e["BROWSER"]), e["npm_config_browser"]),
       "chromium")

\* getBrowserInstance(browserName) (lines 18-58) under process.argv = args and
\* process.env = e
GetBrowserInstance(browserName, args, e) ==
    IF Truthy(browserName) /\ Truthy(BrowserTypes(ToLowerCase(browserName)))
    THEN \* lines 20-27
         [browser |-> BrowserTypes(ToLowerCase(browserName)),
          name |-> ToLowerCase(browserName)]
    ELSE LET projectName == ProjectName(args, e)
         IN  IF Truthy(projectName) /\ Truthy(BrowserTypes(ToLowerCase(projectName)))
             THEN \* lines 41-48
                  [browser |-> BrowserTypes(ToLowerCase(projectName)),
                   name |-> ToLowerCase(projectName)]
             ELSE \* lines 51-57
                  LET normalizedName == ToLowerCase(FallbackBrowserName(e))
                  IN  [browser |-> Or(BrowserTypes(normalizedName),
                                      BrowserTypes("chromium")),
                       name |-> normalizedName]

\* The process starts with some command line and environment.
InitBrowser ==
    /\ argv \in ArgvChoices
    /\ env \in Environments
    /\ selection = NoCall

\* A caller calls getBrowserInstance(browserName).
CallGetBrowserInstance ==
    \E browserName \in ExplicitNames :
        /\ selection' = [op |-> "getBrowserInstance", browserName |-> browserName,
                         result |-> GetBrowserInstance(browserName, argv, env)]
        /\ UNCHANGED << argv, env >>
        /\ UNCHANGED << tokenVars, sessionVars, clientVars >>

----------------------------------------------------------------------------
(* BrowserManager: session-state files *)

\* process.cwd()
Cwd == "/work"

\* getCurrentBrowserName(browserName = null) (lines 65-85) under process.argv =
\* args and process.env = e
GetCurrentBrowserName(browserName, args, e) ==
    IF Truthy(browserName)
    THEN browserName
    ELSE IF Truthy(ProjectName(args, e))
         THEN ProjectName(args, e)
         ELSE FallbackBrowserName(e)

\* path.resolve(process.cwd(), 'auth-states', `state-${targetBrowser}.json`)
\* (line 94)
StateFileOf(targetBrowser) ==
    Cwd \o "/auth-states/state-" \o targetBrowser \o ".json"

\* getStateFilePath(browserName = null) (lines 92-95)
GetStateFilePath(browserName, args, e) ==
    StateFileOf(Or(browserName, GetCurrentBrowserName(Null, args, e)))

\* A caller calls getStateFilePath(browserName).
\* launchBrowser(browserName, headless) (lines 103-106): the object whose
\* launch method is called.
LaunchBrowser(browserName, args, e) ==
    GetBrowserInstance(browserName, args, e).browser

\* Only the BrowserType objects have a launch method; calling launch on
\* anything else throws a TypeError.
Launchable(handle) ==
    \E engine \in SupportedEngines : handle = EngineHandle(engine)

NotAFunctionMessage == "browser.launch is not a function"

CallGetStateFilePath ==
    \E browserName \in ExplicitNames :
        /\ selection' = [op |-> "getStateFilePath", browserName |-> browserName,
                         result |-> GetStateFilePath(browserName, argv, env)]
        /\ UNCHANGED << argv, env >>
        /\ UNCHANGED << tokenVars, sessionVars, clientVars >>


----------------------------------------------------------------------------
(* AuthManager: authenticate and setupTestEnvironment *)

\* The browser names authenticate is called with, the ones
\* setupTestEnvironment is called with, and the environments they run in.
AuthenticateNames == {Null, "chromium"}

SetupNames == {"chromium", "firefox", "webkit"}

SessionEnvironments ==
    { [v \in EnvVars |-> IF v = "BROWSER" THEN b ELSE Undefined] :
          b \in {Undefined, "Firefox"} }

SessionArgv == << "node", "playwright", "test" >>

\* The state files the calls above can name.
StatePaths ==
    { StateFileOf(name) : name \in SetupNames \cup {"Firefox"} }

\* The content of a path where there is no file.
Absent == [session |-> "<no file>", gen |-> 0]

\* What context.storageState writes: the session of the context, which is a
\* fresh one at every login (gen tells two sessions written to one path
\* apart).
StorageState(session, previous) ==
    [session |-> session,
     gen |-> IF previous = Absent THEN 0 ELSE 1 - previous.gen]

\* A program order in which the session state is persisted before the login
\* is submitted.
StepsPersistBeforeLogin ==
    << "launch", "newContext", "newPage", "goto", "fillUsername",
       "fillPassword", "checkRememberMe", "storageState", "clickLogin",
       "waitNetworkIdle", "waitNetworkIdleAgain", "closeContext",
       "closeBrowser" >>


\* The awaited steps of authenticate in program order (lines 155-179).
Steps ==
    << "launch", "newContext", "newPage", "goto", "fillUsername",
       "fillPassword", "checkRememberMe", "clickLogin", "waitNetworkIdle",
       "waitNetworkIdleAgain", "storageState", "closeContext", "closeBrowser" >>

\* The message of the error a failing step throws.
StepError(step) == step \o " error"

\* Variant: the target browser is normalised before it is used.
AuthenticateTargetLowerCase(browserName, args, e) ==
    ToLowerCase(Or(browserName, GetCurrentBrowserName(Null, args, e)))

\* line 153: targetBrowser = browserName || getCurrentBrowserName()
AuthenticateTarget(browserName, args, e) ==
    Or(browserName, GetCurrentBrowserName(Null, args, e))

\* line 189
AuthenticationFailed(targetBrowser, step) ==
    "Authentication failed with " \o targetBrowser \o ": " \o StepError(step)

NoAuth ==
    [status |-> "idle", browserName |-> Null, targetBrowser |-> Null,
     accepted |-> FALSE, step |-> 1, browser |-> "none", context |-> "none",
     page |-> "none", session |-> "none", failed |-> "none",
     closeTried |-> {}, wrote |-> FALSE, fileBefore |-> Absent,
     afterSuccess |-> FALSE, message |-> "", headless |-> FALSE,
     log |-> << >>]

\* fs.existsSync(getStateFilePath(browserName)) (lines 124-128)
HasStateFile(browserName) ==
    files[GetStateFilePath(browserName, argv, env)] # Absent

InitSession ==
    /\ argv = SessionArgv
    /\ env \in SessionEnvironments
    /\ selection = NoCall
    /\ files = [p \in StatePaths |-> Absent]
    /\ auth = NoAuth
    /\ setup = NoCall

AtStep(step) == auth.status = "running" /\ Steps[auth.step] = step

SessionFrame == UNCHANGED << argv, env, selection, tokenVars, clientVars >>

\* authenticate(credentials, browserName = null) is called (lines 149-155):
\* the login page accepts the credentials or not.
Authenticate ==
    /\ auth.status \in {"idle", "returned", "thrown"}
    /\ \E browserName \in AuthenticateNames, accepted \in BOOLEAN :
           LET targetBrowser == AuthenticateTarget(browserName, argv, env)
           IN  auth' = [NoAuth EXCEPT
                           !.status = "running",
                           !.browserName = browserName,
                           !.targetBrowser = targetBrowser,
                           !.accepted = accepted,
                           \* the state file as the call finds it, and
                           \* whether the call before this one returned
                           \* normally for the same target
                           !.fileBefore = files[StateFileOf(targetBrowser)],
                           !.afterSuccess =
                               /\ auth.status = "returned"
                               /\ auth.targetBrowser = targetBrowser]
    /\ setup' = NoCall
    /\ UNCHANGED files
    /\ SessionFrame

\* The operation a step performs: the two waits are the same call.
Operation(step) ==
    IF step = "waitNetworkIdleAgain" THEN "waitNetworkIdle" ELSE step

\* The call has performed the operation of `step`, to its end or to its
\* failure; log lists the operations in the order they were performed.
Performed(a, step) == [a EXCEPT !.log = Append(@, Operation(step))]

\* A step before the try block throws: the error leaves authenticate as it is.
Escaped(a, step) ==
    [Performed(a, step) EXCEPT !.status = "thrown", !.failed = step,
                               !.message = StepError(step)]

\* A step inside the try block throws: control enters the catch block
\* (line 181).
Caught(a, step) ==
    [Performed(a, step) EXCEPT !.status = "cleanup", !.failed = step]

\* The step the call is at completes and the next one is awaited.
Proceed(a) == [Performed(a, Steps[a.step]) EXCEPT !.step = @ + 1]

\* line 155: launchBrowser(targetBrowser, true)
Launch ==
    /\ AtStep("launch")
    /\ \E ok \in BOOLEAN :
           auth' = IF ok
                   THEN [Proceed(auth) EXCEPT !.browser = "open",
                                              !.headless = TRUE]
                   ELSE Escaped(auth, "launch")
    /\ UNCHANGED << files, setup >>
    /\ SessionFrame

\* line 156: browser.newContext()
NewContext ==
    /\ AtStep("newContext")
    /\ \E ok \in BOOLEAN :
           auth' = IF ok
                   THEN [Proceed(auth) EXCEPT !.context = "open",
                                              !.session = "anonymous"]
                   ELSE Escaped(auth, "newContext")
    /\ UNCHANGED << files, setup >>
    /\ SessionFrame

\* line 157: context.newPage()
NewPage ==
    /\ AtStep("newPage")
    /\ \E ok \in BOOLEAN :
           auth' = IF ok
                   THEN [Proceed(auth) EXCEPT !.page = "open"]
                   ELSE Escaped(auth, "newPage")
    /\ UNCHANGED << files, setup >>
    /\ SessionFrame

\* A step on the page that changes nothing but the page: it completes, or it
\* throws inside the try block.
PageStep(a, step) == {Proceed(a), Caught(a, step)}

\* line 163: page.goto(`${baseUrl}/login`)
Goto ==
    /\ AtStep("goto")
    /\ auth' \in PageStep(auth, "goto")
    /\ UNCHANGED << files, setup >>
    /\ SessionFrame

\* line 164: fill the Username textbox
FillUsername ==
    /\ AtStep("fillUsername")
    /\ auth' \in PageStep(auth, "fillUsername")
    /\ UNCHANGED << files, setup >>
    /\ SessionFrame

\* line 165: fill the Password textbox
FillPassword ==
    /\ AtStep("fillPassword")
    /\ auth' \in PageStep(auth, "fillPassword")
    /\ UNCHANGED << files, setup >>
    /\ SessionFrame

\* line 166: check 'Remember me'
CheckRememberMe ==
    /\ AtStep("checkRememberMe")
    /\ auth' \in PageStep(auth, "checkRememberMe")
    /\ UNCHANGED << files, setup >>
    /\ SessionFrame

\* line 167: the click submits the form; the context holds a logged-in session
\* afterwards when the login page accepted the credentials.
ClickLogin ==
    /\ AtStep("clickLogin")
    /\ \E ok \in BOOLEAN :
           auth' = IF ok
                   THEN [Proceed(auth) EXCEPT
                            !.session = IF auth.accepted THEN "authenticated"
                                        ELSE "anonymous"]
                   ELSE Caught(auth, "clickLogin")
    /\ UNCHANGED << files, setup >>
    /\ SessionFrame

\* line 168: page.waitForLoadState('networkidle')
WaitNetworkIdle ==
    /\ AtStep("waitNetworkIdle")
    /\ auth' \in PageStep(auth, "waitNetworkIdle")
    /\ UNCHANGED << files, setup >>
    /\ SessionFrame

\* line 172: page.waitForLoadState('networkidle') once more
WaitNetworkIdleAgain ==
    /\ AtStep("waitNetworkIdleAgain")
    /\ auth' \in PageStep(auth, "waitNetworkIdleAgain")
    /\ UNCHANGED << files, setup >>
    /\ SessionFrame

\* line 175: context.storageState({ path: stateFilePath })
SaveStorageState ==
    /\ AtStep("storageState")
    /\ LET stateFilePath == GetStateFilePath(auth.targetBrowser, argv, env)
       IN  \E ok \in BOOLEAN :
               IF ok
               THEN /\ files' = [files EXCEPT ![stateFilePath] =
                                    StorageState(auth.session, @)]
                    /\ auth' = [Proceed(auth) EXCEPT !.wrote = TRUE]
               ELSE /\ files' = files
                    /\ auth' = Caught(auth, "storageState")
    /\ UNCHANGED setup
    /\ SessionFrame

\* line 178: context.close()
CloseContext ==
    /\ AtStep("closeContext")
    /\ \E ok \in BOOLEAN :
           LET tried == [auth EXCEPT !.closeTried = @ \cup {"context"}]
           IN  auth' = IF ok
                       THEN [Proceed(tried) EXCEPT !.context = "closed",
                                                   !.page = "closed"]
                       ELSE Caught(tried, "closeContext")
    /\ UNCHANGED << files, setup >>
    /\ SessionFrame

\* line 179: browser.close(), after which authenticate returns
CloseBrowser ==
    /\ AtStep("closeBrowser")
    /\ \E ok \in BOOLEAN :
           LET tried == [auth EXCEPT !.closeTried = @ \cup {"browser"}]
           IN  auth' = IF ok
                       THEN [Performed(tried, "closeBrowser") EXCEPT
                                !.browser = "closed",
                                !.status = "returned"]
                       ELSE Caught(tried, "closeBrowser")
    /\ UNCHANGED << files, setup >>
    /\ SessionFrame

\* line 189: the error authenticate throws from its catch block
Thrown(a) ==
    [a EXCEPT !.status = "thrown",
              !.message = AuthenticationFailed(a.targetBrowser, a.failed)]

\* line 184: context.close() in the catch block; when it throws, the inner
\* catch (line 186) swallows the error and browser.close() is skipped.
CleanupContext ==
    /\ auth.status = "cleanup"
    /\ \E ok \in BOOLEAN :
           LET tried == [Performed(auth, "closeContext") EXCEPT
                            !.closeTried = @ \cup {"context"}]
           IN  auth' = IF ok
                       THEN [tried EXCEPT !.context = "closed",
                                          !.page = "closed",
                                          !.status = "cleanupBrowser"]
                       ELSE Thrown(tried)
    /\ UNCHANGED << files, setup >>
    /\ SessionFrame

\* line 185: browser.close() in the catch block, then the throw of line 189
CleanupBrowser ==
    /\ auth.status = "cleanupBrowser"
    /\ \E ok \in BOOLEAN :
           LET tried == [Performed(auth, "closeBrowser") EXCEPT
                            !.closeTried = @ \cup {"browser"}]
           IN  auth' = IF ok
                       THEN Thrown([tried EXCEPT !.browser = "closed"])
                       ELSE Thrown(tried)
    /\ UNCHANGED << files, setup >>
    /\ SessionFrame

\* What the engine does in setupTestEnvironment that can fail for a reason of
\* its own.
SetupSteps == {"launch", "newContext", "newPage"}

\* browser.newContext({ storageState: path }) reads the file and fails when
\* there is none.
NoStateFileError == "ENOENT: no such file or directory"

\* setupTestEnvironment(browserName) (lines 217-223) with
\* createAuthenticatedContext (lines 114-117); `failing` is the step the
\* engine fails at for a reason of its own, if any.
SetupTestEnvironment(browserName, failing, disk, args, e) ==
    LET engine == LaunchBrowser(browserName, args, e)
        stateFilePath == GetStateFilePath(browserName, args, e)
        base == [op |-> "setupTestEnvironment", browserName |-> browserName,
                 failing |-> failing, engine |-> engine,
                 stateFilePath |-> stateFilePath,
                 storageState |-> Absent]
    IN  IF ~Launchable(engine)
        THEN base @@ [kind |-> "error", message |-> NotAFunctionMessage,
                      open |-> {}]
        ELSE IF failing = "launch"
        THEN base @@ [kind |-> "error", message |-> StepError("launch"),
                      open |-> {}]
        ELSE IF disk[stateFilePath] = Absent
        THEN base @@ [kind |-> "error", message |-> NoStateFileError,
                      open |-> {"browser"}]
        ELSE IF failing = "newContext"
        THEN base @@ [kind |-> "error", message |-> StepError("newContext"),
                      open |-> {"browser"}]
        ELSE IF failing = "newPage"
        THEN base @@ [kind |-> "error", message |-> StepError("newPage"),
                      open |-> {"browser", "context"}]
        ELSE [base EXCEPT !.storageState = disk[stateFilePath]]
                 @@ [kind |-> "ok", message |-> "",
                     open |-> {"browser", "context", "page"}]

\* A test calls setupTestEnvironment while no authenticate call is running.
CallSetupTestEnvironment ==
    /\ auth.status \in {"idle", "returned", "thrown"}
    /\ \E browserName \in SetupNames, failing \in SetupSteps \cup {"none"} :
           setup' = SetupTestEnvironment(browserName, failing, files, argv, env)
    /\ UNCHANGED << files, auth >>
    /\ SessionFrame


----------------------------------------------------------------------------
(* AuthManager: getApiAuthHeaders *)

\* A headers object: a function from header names to values; {} has no names.
NoHeaders == << >>

\* What a template literal makes of a value.
ToText(v) ==
    IF v = Undefined THEN "undefined" ELSE IF v = Null THEN "null" ELSE v

\* Variant: the token is sent without the Bearer scheme.
AuthorizationHeaderBare(tokenValue) == [Authorization |-> ToText(tokenValue)]

\* { 'Authorization': `Bearer ${token}` } (lines 305-307; part_000 lines 51-53)
AuthorizationHeader(tokenValue) ==
    [Authorization |-> "Bearer " \o ToText(tokenValue)]

\* getApiAuthHeaders (lines 303-308) run on the fields (cache, base, endpoint):
\* the outcome of getApiToken, with the headers returned when it succeeded.
GetApiAuthHeadersOn(cache, base, endpoint, response) ==
    LET r == GetApiTokenOn(cache, base, endpoint, response)
    IN  r @@ [headers |-> IF r.kind = "ok" THEN AuthorizationHeader(r.value)
                          ELSE NoHeaders]

\* The login bodies used in the runs with apiUtils: 'token' and 'access_token'
\* present or not.
ClientBodies ==
    {b \in Bodies : /\ b["jwt"] = Undefined
                    /\ b["accessToken"] = Undefined
                    /\ b["token"] # EmptyStr
                    /\ b["access_token"] # EmptyStr}

ClientResponses ==
    {r \in Responses : (r.type = "http" /\ r.ok) => r.body \in ClientBodies}

ClientAnswers(sent) == IF sent = << >> THEN {NoResponse} ELSE ClientResponses

\* A caller calls authManager.getApiAuthHeaders().
GetApiAuthHeaders ==
    \E response \in ClientAnswers(GetApiAuthHeadersOn(apiToken, apiBaseUrl,
                                      apiLoginEndpoint, NoResponse).sent) :
        LET r == GetApiAuthHeadersOn(apiToken, apiBaseUrl, apiLoginEndpoint,
                                     response)
        IN
            /\ apiToken' = r.cache
            /\ call' = CallRecord("getApiAuthHeaders", r, response)
                           @@ [headers |-> r.headers]
            /\ firstOk' = IF r.kind = "ok" /\ firstOk = NoCall
                          THEN [op |-> "getApiToken", value |-> r.value,
                                requests |-> Len(r.sent)]
                          ELSE firstOk
            /\ Observed(r)
            /\ UNCHANGED << apiBaseUrl, apiLoginEndpoint >>
            /\ OutsideTokenCache

----------------------------------------------------------------------------
(* apiUtils: token-authenticated requests (src/unnamed/part_000) *)

\* The AuthManager object an apiUtils can hold.
TheAuthManager == "AuthManager"

\* apiUtils.apiURL
ApiURL == "https://api.a"

\* The headers argument of a request; {} is the default.
CallerHeaders ==
    {NoHeaders, [Authorization |-> "Basic caller"], [Accept |-> "text/plain"],
     [Authorization |-> "Basic caller", Accept |-> "text/plain"]}

\* Variant: { ...b, ...a }
SpreadReversed(a, b) ==
    [k \in DOMAIN a \cup DOMAIN b |-> IF k \in DOMAIN a THEN a[k] ELSE b[k]]

\* { ...a, ...b } (part_000 lines 71, 78, 102, 111, 128, 137, 161, 170, 189,
\* 197)
Spread(a, b) ==
    [k \in DOMAIN a \cup DOMAIN b |-> IF k \in DOMAIN b THEN b[k] ELSE a[k]]

\* `${this.apiURL}/login` (part_000 line 24)
FallbackLoginUrl == ApiURL \o "/login"

\* part_000 line 30
FailedToFetchMessage(response) == "Failed to fetch token: " \o response.status

\* this.authManager && this.authManager.apiToken (part_000 lines 17, 45)
Delegates(manager, managerCache) == manager # Null /\ Truthy(managerCache)

\* Variant: the fallback login accepts the field names the AuthManager accepts.
FallbackTokenAnyField(body) == ExtractToken(body)

\* responseBody.token (part_000 line 34)
FallbackToken(body) == body["token"]

\* getToken (part_000 lines 15-37) on apiUtils' own cache `own`, holding
\* `manager` whose fields are (managerCache, base, endpoint); `response`
\* answers the fallback login if it is sent.
GetTokenOn(own, manager, managerCache, base, endpoint, response) ==
    IF Delegates(manager, managerCache) THEN
        \* lines 17-19
        LET r == GetApiTokenOn(managerCache, base, endpoint, NoResponse)
        IN  [own |-> own, delegated |-> TRUE, kind |-> r.kind,
             value |-> r.value, posts |-> << >>, manager |-> r]
    ELSE IF Truthy(own) THEN
        \* line 36
        [own |-> own, delegated |-> FALSE, kind |-> "ok", value |-> own,
         posts |-> << >>, manager |-> NoCall]
    ELSE
        LET fetched == [own |-> own, delegated |-> FALSE, kind |-> "error",
                        value |-> "", posts |-> << FallbackLoginUrl >>,
                        manager |-> NoCall]
        IN  IF response.type \in {"throw", "none", "badjson"} THEN
                \* apiContext.post or response.json() rejects
                [fetched EXCEPT !.value = response.message]
            ELSE IF ~response.ok THEN
                \* lines 29-31
                [fetched EXCEPT !.value = FailedToFetchMessage(response)]
            ELSE
                \* lines 33-36
                [fetched EXCEPT !.own = FallbackToken(response.body),
                                !.kind = "ok",
                                !.value = FallbackToken(response.body)]

\* getAuthHeaders (part_000 lines 43-54)
GetAuthHeadersOn(own, manager, managerCache, base, endpoint, response) ==
    IF Delegates(manager, managerCache) THEN
        \* lines 45-47
        LET r == GetApiAuthHeadersOn(managerCache, base, endpoint, NoResponse)
        IN  [own |-> own, delegated |-> TRUE, kind |-> r.kind,
             value |-> r.value, posts |-> << >>, manager |-> r,
             headers |-> r.headers]
    ELSE
        \* lines 50-53
        LET t == GetTokenOn(own, manager, managerCache, base, endpoint, response)
        IN  t @@ [headers |-> IF t.kind = "ok" THEN AuthorizationHeader(t.value)
                              ELSE NoHeaders]

\* The API flow test forces a new token before each test (part_001 lines
\* 26-29); the login server answers as it answers the client.
BeforeEachForceNewToken ==
    \E response \in ClientAnswers(ForceNewTokenOn(apiToken, apiBaseUrl,
                                      apiLoginEndpoint, NoResponse).sent) :
        LET r == ForceNewTokenOn(apiToken, apiBaseUrl, apiLoginEndpoint, response)
        IN
            /\ apiToken' = r.cache
            /\ call' = CallRecord("forceNewToken", r, response)
            /\ firstOk' = NoCall
            /\ Observed(r)
            /\ UNCHANGED << apiBaseUrl, apiLoginEndpoint >>
            /\ OutsideTokenCache

\* new apiUtils(apiContext, apiURL, authManager = null) (part_000 lines 6-13)
InitClient ==
    /\ token = Null
    /\ authManager \in {Null, TheAuthManager}
    /\ request = NoCall
    /\ browserContext = NoContext

\* setAuthManager(authManager) (part_000 lines 205-207)
SetAuthManager ==
    /\ \E manager \in {Null, TheAuthManager} : authManager' = manager
    /\ UNCHANGED << token, request, browserContext >>
    /\ UNCHANGED << tokenVars, browserVars, sessionVars >>

\* A token-authenticated request is made with `headers`: getWithToken,
\* postWithToken, putWithToken, patchWithToken, deleteWithToken or one of their
\* ...AndQuery variants, which all build their headers by the same two lines
\* (part_000 lines 68-80, 98-114, 124-140, 157-173, 186-199).  The record
\* holds the headers the request is sent with, or the error of getAuthHeaders.
RequestWithToken ==
    \E headers \in CallerHeaders :
    \E response \in ClientAnswers(GetAuthHeadersOn(token, authManager, apiToken,
                        apiBaseUrl, apiLoginEndpoint, NoResponse).posts) :
        LET a == GetAuthHeadersOn(token, authManager, apiToken, apiBaseUrl,
                                  apiLoginEndpoint, response)
        IN
            /\ token' = a.own
            /\ request' =
                   [op |-> "requestWithToken", headers |-> headers,
                    kind |-> a.kind,
                    message |-> IF a.kind = "error" THEN a.value ELSE "",
                    authHeaders |-> a.headers,
                    sent |-> IF a.kind = "ok" THEN Spread(a.headers, headers)
                             ELSE NoHeaders,
                    delegated |-> a.delegated,
                    posts |-> a.posts,
                    response |-> response,
                    \* the AuthManager as the request found it
                    managerHeld |-> authManager # Null,
                    managerConfigured |->
                        CredentialsSet(apiBaseUrl, apiLoginEndpoint),
                    managerCache |-> apiToken]
            /\ IF a.delegated
               THEN /\ call' = CallRecord("getApiAuthHeaders", a.manager,
                                          NoResponse)
                                   @@ [headers |-> a.headers]
                    /\ Observed(a.manager)
               ELSE UNCHANGED << call, lastFail >>
            /\ UNCHANGED << apiToken, apiBaseUrl, apiLoginEndpoint, firstOk,
                            flows, authManager, browserContext >>
            /\ UNCHANGED << browserVars, sessionVars >>


-----------------------------------------------------------------------------
(* AuthManager: authenticate followed by setupTestEnvironment, for every   *)
(* browser name                                                            *)

\* The environments and the number of state files of these runs.
PairingEnvironments ==
    { [v \in EnvVars |-> CASE v = "PLAYWRIGHT_PROJECT" -> project
                           [] v = "BROWSER" -> browser
                           [] OTHER -> Undefined] :
          project \in {Undefined, "Firefox", "edge"},
          browser \in {Undefined, "webkit", "constructor"} }

MaxStateFiles == 1

PairingPaths == { StateFileOf(name) : name \in Names }

StateFiles(disk) == { p \in DOMAIN disk : disk[p] # Absent }

\* A whole authenticate(credentials, browserName) call (lines 149-191) in
\* which the login page accepts the credentials and no step fails for a reason
\* of its own: it returns after writing the state file, unless the object it
\* is to launch has no launch method (line 155, outside the try block).
AuthenticateOn(browserName, disk, args, e) ==
    LET targetBrowser == AuthenticateTarget(browserName, args, e)
        engine == LaunchBrowser(targetBrowser, args, e)
        stateFilePath == GetStateFilePath(targetBrowser, args, e)
        base == [op |-> "authenticate", browserName |-> browserName,
                 targetBrowser |-> targetBrowser, engine |-> engine,
                 stateFilePath |-> stateFilePath]
    IN  IF ~Launchable(engine)
        THEN base @@ [status |-> "thrown", message |-> NotAFunctionMessage,
                      files |-> disk]
        ELSE base @@ [status |-> "returned", message |-> "",
                      files |-> [disk EXCEPT ![stateFilePath] =
                                    StorageState("authenticated", @)]]

InitPairing ==
    /\ argv \in ArgvChoices
    /\ env \in PairingEnvironments
    /\ selection = NoCall
    /\ files = [p \in PairingPaths |-> Absent]
    /\ auth = NoCall
    /\ setup = NoCall

\* authenticate(credentials, browserName) runs from its call to its end.
AuthenticateCall ==
    /\ \E browserName \in ExplicitNames :
           LET r == AuthenticateOn(browserName, files, argv, env)
           IN  /\ Cardinality(StateFiles(r.files)) <= MaxStateFiles
               /\ auth' = [f \in DOMAIN r \ {"files"} |-> r[f]]
               /\ files' = r.files
    /\ setup' = NoCall
    /\ SessionFrame

\* setupTestEnvironment(browserName) runs from its call to its end.
SetupCall ==
    /\ \E browserName \in ExplicitNames, failing \in {"none", "newPage"} :
           setup' = SetupTestEnvironment(browserName, failing, files, argv, env)
    /\ UNCHANGED << files, auth >>
    /\ SessionFrame


-----------------------------------------------------------------------------
(* AuthManager: getApiToken calls that overlap                             *)

\* Variant: a response does not replace a token that is already cached.
ProcessResponseFirstWins(cache, response) ==
    IF Truthy(cache)
    THEN [FetchOutcome(cache, response) EXCEPT !.cache = cache]
    ELSE FetchOutcome(cache, response)

\* Lines 285-293 run without an await in between once response.json() has
\* settled: the token is assigned to the cache as it is then, checked and
\* returned.
ProcessResponse(cache, response) == FetchOutcome(cache, response)

Other(c) == CHOOSE d \in Callers : d # c

InFlight(flow) == flow.pc \in {"fetch", "json"}

\* A caller calls getApiToken (lines 260-273): the call runs to its first
\* await, the fetch of the login request, unless it ends before.
BeginGetApiToken(c) ==
    /\ flows[c].pc \in {"idle", "done"}
    /\ LET r == GetApiTokenOn(apiToken, apiBaseUrl, apiLoginEndpoint, NoResponse)
           other == Other(c)
       IN  IF r.sent = << >>
           THEN \* configuration error or cached token
                flows' = [flows EXCEPT ![c] =
                             [NoFlow EXCEPT !.pc = "done", !.kind = r.kind,
                                            !.value = r.value]]
           ELSE flows' = [flows EXCEPT
                             ![c] = [NoFlow EXCEPT
                                        !.pc = "fetch", !.sent = r.sent,
                                        !.overlapped = InFlight(flows[other])],
                             ![other] = [@ EXCEPT !.overlapped =
                                            @ \/ InFlight(flows[other])]]
    /\ UNCHANGED << apiToken, apiBaseUrl, apiLoginEndpoint, call, firstOk,
                    lastFail >>
    /\ UNCHANGED << browserVars, sessionVars, clientVars >>

\* The fetch of a caller settles (lines 273-283): it rejects, or it answers
\* with a status that is not ok, or the call goes on to await response.json().
FetchSettles(c) ==
    /\ flows[c].pc = "fetch"
    /\ \E response \in ClientResponses :
           IF (response.type = "http" /\ response.ok) \/ response.type = "badjson"
           THEN flows' = [flows EXCEPT ![c].pc = "json",
                                       ![c].response = response]
           ELSE LET r == FetchOutcome(apiToken, response)
                IN  flows' = [flows EXCEPT ![c].pc = "done",
                                           ![c].response = response,
                                           ![c].kind = r.kind,
                                           ![c].value = r.value]
    /\ UNCHANGED << apiToken, apiBaseUrl, apiLoginEndpoint, call, firstOk,
                    lastFail >>
    /\ UNCHANGED << browserVars, sessionVars, clientVars >>

\* response.json() of a caller settles and the call runs to its end (lines
\* 285-296).
JsonSettles(c) ==
    /\ flows[c].pc = "json"
    /\ LET r == ProcessResponse(apiToken, flows[c].response)
           written == flows[c].response.type = "http"
       IN  /\ apiToken' = r.cache
           /\ flows' = [d \in Callers |->
                          IF d = c
                          THEN [flows[c] EXCEPT !.pc = "done", !.kind = r.kind,
                                                !.value = r.value,
                                                !.latest = written]
                          ELSE [flows[d] EXCEPT !.latest = @ /\ ~written]]
    /\ UNCHANGED << apiBaseUrl, apiLoginEndpoint, call, firstOk, lastFail >>
    /\ UNCHANGED << browserVars, sessionVars, clientVars >>


-----------------------------------------------------------------------------
(* AuthManager: injectTokenToBrowserContext                                *)

\* The number of init scripts installed into the context in one run.
MaxInitScripts == 2

AddInitScriptError == "addInitScript error"

\* Variant: the script reads the AuthManager's cache when it runs.
InitScriptLiveToken(captured, cache) ==
    [apiToken |-> cache, getAuthHeaders |-> AuthorizationHeader(cache)]

\* What the init script of lines 319-324 leaves in window when it runs: the
\* token it was installed with (its argument, copied at installation), and
\* the headers window.getAuthHeaders() builds from it.  `cache` is the
\* AuthManager's cache when the script runs, which the script does not read.
InitScript(captured, cache) ==
    [apiToken |-> captured, getAuthHeaders |-> AuthorizationHeader(captured)]

\* injectTokenToBrowserContext(context) (lines 315-325): getApiToken, then
\* context.addInitScript, which the context may reject.
InjectTokenToBrowserContext ==
    /\ Len(browserContext.scripts) < MaxInitScripts
    /\ \E installs \in BOOLEAN :
       \E response \in ClientAnswers(GetApiTokenOn(apiToken, apiBaseUrl,
                                         apiLoginEndpoint, NoResponse).sent) :
           LET r == GetApiTokenOn(apiToken, apiBaseUrl, apiLoginEndpoint, response)
               done == [op |-> "injectTokenToBrowserContext", kind |-> r.kind,
                        value |-> r.value]
           IN  /\ apiToken' = r.cache
               /\ call' = CallRecord("getApiToken", r, response)
               /\ firstOk' = IF r.kind = "ok" /\ firstOk = NoCall
                             THEN [op |-> "getApiToken", value |-> r.value,
                                   requests |-> Len(r.sent)]
                             ELSE firstOk
               /\ Observed(r)
               /\ browserContext' =
                      IF r.kind = "error"
                      THEN \* line 316 throws: line 319 is not reached
                           [browserContext EXCEPT !.injection = done]
                      ELSE IF installs
                      THEN [browserContext EXCEPT
                               !.scripts = Append(@, r.value),
                               !.injection = done]
                      ELSE [browserContext EXCEPT
                               !.injection =
                                   [done EXCEPT !.kind = "error",
                                                !.value = AddInitScriptError]]
    /\ UNCHANGED << apiBaseUrl, apiLoginEndpoint, flows, token, authManager,
                    request >>
    /\ UNCHANGED << browserVars, sessionVars >>

\* The page of the context loads a document (part_001 line 93): every init
\* script of the context runs in it before the page's own scripts.  The
\* order in which several init scripts run is not defined, so any of them
\* may be the one that runs last.
LoadDocument ==
    /\ \E last \in IF browserContext.scripts = << >> THEN {0}
                   ELSE 1..Len(browserContext.scripts) :
           browserContext' =
               [browserContext EXCEPT
                   !.loaded = TRUE,
                   !.installed = Len(browserContext.scripts),
                   !.window = IF last = 0 THEN NoWindow
                              ELSE InitScript(browserContext.scripts[last],
                                              apiToken)]
    /\ UNCHANGED << tokenVars, browserVars, sessionVars, token, authManager,
                    request >>


----------------------------------------------------------------------------
(* Specifications *)

InitBrowserIdle ==
    /\ argv = << >>
    /\ env = << >>
    /\ selection = NoCall

\* No authenticate or setupTestEnvironment call has been made.
InitSessionIdle ==
    /\ files = [p \in StatePaths |-> Absent]
    /\ auth = NoAuth
    /\ setup = NoCall

\* No apiUtils object has been made.
InitClientIdle ==
    /\ token = Null
    /\ authManager = Null
    /\ request = NoCall
    /\ browserContext = NoContext

Init == InitToken /\ InitBrowserIdle /\ InitSessionIdle /\ InitClientIdle

Next ==
    \/ SetApiCredentials
    \/ GetApiToken
    \/ ForceNewToken
    \/ ClearApiToken

Spec == Init /\ [][Next]_vars

InitSelection ==
    InitToken /\ InitBrowser /\ InitSessionIdle /\ InitClientIdle

NextSelection == CallGetBrowserInstance

SpecSelection == InitSelection /\ [][NextSelection]_vars

NextPaths == CallGetStateFilePath

SpecPaths == InitSelection /\ [][NextPaths]_vars

InitAuth == InitToken /\ InitSession /\ InitClientIdle

InitPairs == InitToken /\ InitPairing /\ InitClientIdle

NextPairs == AuthenticateCall \/ SetupCall

SpecPairs == InitPairs /\ [][NextPairs]_vars

NextAuth ==
    \/ Authenticate
    \/ Launch
    \/ NewContext
    \/ NewPage
    \/ Goto
    \/ FillUsername
    \/ FillPassword
    \/ CheckRememberMe
    \/ ClickLogin
    \/ WaitNetworkIdle
    \/ WaitNetworkIdleAgain
    \/ SaveStorageState
    \/ CloseContext
    \/ CloseBrowser
    \/ CleanupContext
    \/ CleanupBrowser
    \/ CallSetupTestEnvironment

SpecAuth == InitAuth /\ [][NextAuth]_vars

\* The AuthManager a test starts with (part_001 lines 14-29): setApiCredentials
\* was called or not, and the cache holds a token or not.
InitTokenConfigured ==
    /\ apiToken \in {Null, TokenIn("access_token")}
    /\ \/ apiBaseUrl = Null /\ apiLoginEndpoint = Null
       \/ apiBaseUrl = ApiURL /\ apiLoginEndpoint = "/auth/login"
    /\ call = NoCall
    /\ firstOk = NoCall
    /\ lastFail = NoFail
    /\ flows = NoFlows

InitClients ==
    InitTokenConfigured /\ InitBrowserIdle /\ InitSessionIdle /\ InitClient

NextClient ==
    \/ ClearApiToken
    \/ BeforeEachForceNewToken
    \/ SetAuthManager
    \/ RequestWithToken

SpecClient == InitClients /\ [][NextClient]_vars

InitOverlap ==
    /\ InitTokenConfigured
    /\ InitBrowserIdle /\ InitSessionIdle /\ InitClientIdle

NextOverlap ==
    \E c \in Callers :
        \/ BeginGetApiToken(c)
        \/ FetchSettles(c)
        \/ JsonSettles(c)

SpecOverlap == InitOverlap /\ [][NextOverlap]_vars

InitInject ==
    /\ InitTokenConfigured
    /\ InitBrowserIdle /\ InitSessionIdle /\ InitClientIdle

NextInject ==
    \/ InjectTokenToBrowserContext
    \/ LoadDocument
    \/ ClearApiToken
    \/ BeforeEachForceNewToken

SpecInject == InitInject /\ [][NextInject]_vars

NextHeaders ==
    \/ SetApiCredentials
    \/ ClearApiToken
    \/ GetApiAuthHeaders

SpecHeaders == Init /\ [][NextHeaders]_vars

----------------------------------------------------------------------------
(* Claims about the API token cache, checked under Spec *)

TokenCalls == {"getApiToken", "forceNewToken"}

\* The fields of a login response in the order the specification gives them.
FieldOrder == << "token", "access_token", "jwt", "accessToken" >>

\* C1: with API credentials set, a getApiToken that succeeds after an earlier
\* successful getApiToken, with no clearApiToken or forceNewToken in between,
\* returns the token the earlier call returned and sends no login request, so
\* the two calls send at most one request together; and while the cache holds
\* a token, getApiToken returns exactly the cached value, without a request
\* and without changing the cache.
C1_CachedTokenIsReused ==
    [][ (call'.op = "getApiToken"
            /\ CredentialsSet(apiBaseUrl, apiLoginEndpoint))
        => /\ (call'.kind = "ok" /\ firstOk # NoCall)
                => /\ call'.value = firstOk.value
                   /\ firstOk.requests + Len(call'.sent) <= 1
           /\ Truthy(apiToken)
                => /\ call'.kind = "ok"
                   /\ call'.value = apiToken
                   /\ call'.sent = << >>
                   /\ apiToken' = apiToken ]_vars

\* C1 witness: a second getApiToken has returned, from the cache, the token
\* that the first one fetched with one request.
C1_Witness ==
    /\ call.op = "getApiToken"
    /\ call.kind = "ok"
    /\ call.sent = << >>
    /\ firstOk # NoCall
    /\ firstOk.requests = 1
    /\ call.value = firstOk.value

\* C2 as claimed: every forceNewToken sends exactly one login request, also
\* when the configuration is unset, and returns the value the cache then holds.
C2_ForceAlwaysOneRequest ==
    call.op = "forceNewToken"
    => /\ Len(call.sent) = 1
       /\ call.kind = "ok" => call.value = apiToken

\* C2 amended: with API credentials set, forceNewToken sends exactly one login
\* request to the configured endpoint whatever the cache held, and a value it
\* returns is the value the cache then holds; with the base URL or the login
\* path unset it sends no request, fails with the configuration error and
\* leaves the cache empty.
C2_ForceOneRequestWhenConfigured ==
    call.op = "forceNewToken"
    => IF CredentialsSet(apiBaseUrl, apiLoginEndpoint)
       THEN /\ call.sent = << LoginUrl(apiBaseUrl, apiLoginEndpoint) >>
            /\ call.kind = "ok" => (call.value = apiToken /\ Truthy(apiToken))
       ELSE /\ call.sent = << >>
            /\ call.kind = "error"
            /\ call.value = ConfigErrorMessage
            /\ apiToken = Null

\* C2 witness: forceNewToken, called while a token was cached, has sent one
\* request and returned the token now cached.
C2_Witness ==
    /\ call.op = "forceNewToken"
    /\ call.preCached
    /\ Len(call.sent) = 1
    /\ call.kind = "ok"
    /\ call.value = apiToken

\* C3: a getApiToken called while the base URL or the login path is unset
\* fails with the configuration error, sends no login request and leaves the
\* cache as it was, also when a token is cached.
C3_ConfigErrorWithoutCredentials ==
    (call.op = "getApiToken" /\ ~CredentialsSet(apiBaseUrl, apiLoginEndpoint))
    => /\ call.kind = "error"
       /\ call.value = ConfigErrorMessage
       /\ call.sent = << >>
       /\ ~call.cacheChanged

\* C3 witness: getApiToken has failed with the configuration error while a
\* token is cached.
C3_Witness ==
    /\ call.op = "getApiToken"
    /\ call.cause = "config"
    /\ call.preCached
    /\ Truthy(apiToken)

\* C4 as claimed: after every failing getApiToken the token cache equals the
\* token cache before the call.
C4_FailureLeavesCacheUntouched ==
    (call.op = "getApiToken" /\ call.kind = "error") => ~call.cacheChanged

\* The first field of `body`, in FieldOrder, that satisfies Test; Undefined if
\* there is none.
FirstField(body, Test(_)) ==
    IF \E i \in 1..Len(FieldOrder) : Test(body[FieldOrder[i]])
    THEN body[FieldOrder[CHOOSE i \in 1..Len(FieldOrder) :
                  /\ Test(body[FieldOrder[i]])
                  /\ \A j \in 1..(i - 1) : ~Test(body[FieldOrder[j]])]]
    ELSE Undefined

Present(v) == v # Undefined

SuccessfulLogin(c) ==
    c.op = "getApiToken" /\ c.response.type = "http" /\ c.response.ok

\* C5 as claimed: on a successful login response getApiToken caches and
\* returns the value of the first field that is present, whatever its value,
\* and fails only if none of the four fields is present.
C5_FirstPresentField ==
    SuccessfulLogin(call)
    => IF \E f \in TokenFields : Present(call.response.body[f])
       THEN /\ call.kind = "ok"
            /\ call.value = FirstField(call.response.body, Present)
            /\ apiToken = call.value
       ELSE call.kind = "error"

\* C5 amended: on a successful login response getApiToken caches and returns
\* the value of the first field, in the order token, access_token, jwt,
\* accessToken, whose value is a non-empty string; a field that is absent or
\* empty is skipped, and the call fails exactly if no field holds a non-empty
\* value.
C5_FirstNonEmptyField ==
    SuccessfulLogin(call)
    => IF \E f \in TokenFields : Truthy(call.response.body[f])
       THEN /\ call.kind = "ok"
            /\ call.value = FirstField(call.response.body, Truthy)
            /\ apiToken = call.value
       ELSE /\ call.kind = "error"
            /\ call.cause = "extraction"

\* C5 witness: the response held an empty token field and tokens in both jwt
\* and accessToken, and getApiToken returned the one in jwt.
C5_Witness ==
    /\ SuccessfulLogin(call)
    /\ call.response.body["token"] = EmptyStr
    /\ call.response.body["access_token"] = Undefined
    /\ Truthy(call.response.body["jwt"])
    /\ Truthy(call.response.body["accessToken"])
    /\ call.kind = "ok"
    /\ call.value = call.response.body["jwt"]

\* C6: the caller of getApiToken can tell the three kinds of failure apart by
\* the error it gets: missing configuration, a non-successful login response
\* and a successful response without a token produce different messages, and
\* the message for a non-successful response carries its status code and text.
C6_FailuresDistinguishable ==
    (call.op \in TokenCalls /\ call.kind = "error" /\ call.cause \in FailureCauses)
    => /\ (call.prevFail.cause \in FailureCauses /\ call.prevFail.cause # call.cause)
            => call.prevFail.message # call.value
       /\ call.cause = "transport"
            => call.value = "Failed to get API token: API login failed: "
                                \o call.response.status \o " "
                                \o call.response.statusText

\* C6 witness: a call has failed on a response without a token right after a
\* call that failed on a non-successful response.
C6_Witness ==
    /\ call.op = "getApiToken"
    /\ call.kind = "error"
    /\ call.cause = "extraction"
    /\ call.prevFail.cause = "transport"

\* C7: after clearApiToken the cache is empty, and the getApiToken that
\* follows it with credentials set sends one login request to the configured
\* endpoint and, when the response carries a token, returns and caches that
\* token.
C7_ClearThenFetch ==
    /\ call.op = "clearApiToken" => apiToken = Null
    /\ (call.op = "getApiToken" /\ call.afterClear # "no"
           /\ CredentialsSet(apiBaseUrl, apiLoginEndpoint))
       => /\ call.sent = << LoginUrl(apiBaseUrl, apiLoginEndpoint) >>
          /\ (call.response.type = "http" /\ call.response.ok
                /\ \E f \in TokenFields : Truthy(call.response.body[f]))
             => /\ call.kind = "ok"
                /\ call.value = FirstField(call.response.body, Truthy)
                /\ apiToken = call.value

\* C7 witness: a token was cached and cleared, and the next getApiToken has
\* fetched and returned the token of a new response.
C7_Witness ==
    /\ call.op = "getApiToken"
    /\ call.afterClear = "token"
    /\ call.kind = "ok"
    /\ Len(call.sent) = 1
    /\ apiToken = call.value

----------------------------------------------------------------------------
(* Claims about engine selection, checked under SpecSelection *)

\* The engine a name spells, in any letter case; "none" when it spells none.
EngineNamed(name) ==
    CASE name \in {"chromium", "Chromium"} -> "chromium"
      [] name \in {"firefox", "Firefox"} -> "firefox"
      [] name \in {"webkit", "WEBKIT"} -> "webkit"
      [] OTHER -> "none"

\* Names that a plain object inherits a property for.
InheritedKeys == {"constructor"}

\* The first value of the sequence `inputs` that is set (to a non-empty
\* value); Undefined if none is.
FirstSet(inputs) ==
    IF \E i \in 1..Len(inputs) : Truthy(inputs[i])
    THEN inputs[CHOOSE i \in 1..Len(inputs) :
                    /\ Truthy(inputs[i])
                    /\ \A j \in 1..(i - 1) : ~Truthy(inputs[j])]
    ELSE Undefined

\* The process argument that follows the first '--project'; Undefined if
\* there is no '--project' or nothing follows it.
CliProject ==
    IF \E i \in 1..(Len(argv) - 1) :
           argv[i] = "--project" /\ \A j \in 1..(i - 1) : argv[j] # "--project"
    THEN argv[1 + CHOOSE i \in 1..(Len(argv) - 1) :
                  argv[i] = "--project" /\ \A j \in 1..(i - 1) : argv[j] # "--project"]
    ELSE Undefined

Selected == selection.op = "getBrowserInstance"

\* C8 as claimed: an explicit name of a supported engine, in any letter case,
\* selects that engine, and every other explicit name selects chromium,
\* whatever the process arguments and the environment are.
C8_UnrecognizedNameGivesDefault ==
    (Selected /\ Truthy(selection.browserName))
    => selection.result.browser =
           IF EngineNamed(selection.browserName) # "none"
           THEN EngineHandle(EngineNamed(selection.browserName))
           ELSE EngineHandle("chromium")

\* C8 amended: an explicit name of a supported engine, in any letter case,
\* selects that engine whatever the process arguments and the environment
\* are; an explicit name that names no supported engine (and is no property
\* name inherited from Object.prototype) is ignored: the call selects what the
\* process arguments and the environment select, and chromium when none of
\* them is set.
C8_UnrecognizedNameFallsThrough ==
    (Selected /\ Truthy(selection.browserName)
        /\ selection.browserName \notin InheritedKeys)
    => IF EngineNamed(selection.browserName) # "none"
       THEN /\ selection.result.browser =
                   EngineHandle(EngineNamed(selection.browserName))
            /\ selection.result.name = EngineNamed(selection.browserName)
       ELSE /\ selection.result = GetBrowserInstance(Null, argv, env)
            /\ (CliProject = Undefined /\ \A v \in EnvVars : ~Truthy(env[v]))
                 => selection.result.browser = EngineHandle("chromium")

\* C8 witness: getBrowserInstance('edge') has selected firefox, which the
\* environment names, and not chromium.
C8_Witness ==
    /\ Selected
    /\ selection.browserName = "edge"
    /\ CliProject = Undefined
    /\ env["PLAYWRIGHT_PROJECT"] = Undefined
    /\ env["npm_config_project"] = Undefined
    /\ env["PLAYWRIGHT_BROWSER"] = Undefined
    /\ env["BROWSER"] = "Firefox"
    /\ selection.result.browser = EngineHandle("firefox")

\* The inputs of getBrowserInstance in the order of precedence of the claim.
InputsByPrecedence ==
    << selection.browserName, CliProject, env["PLAYWRIGHT_PROJECT"],
       env["npm_config_project"], env["PLAYWRIGHT_BROWSER"], env["BROWSER"],
       env["npm_config_browser"] >>

\* C9 as claimed: the engine returned is the one named by the
\* highest-precedence input that is set (chromium when none is set or when
\* that input names no supported engine).
C9_HighestSetInputWins ==
    Selected
    => selection.result.browser =
           IF EngineNamed(FirstSet(InputsByPrecedence)) # "none"
           THEN EngineHandle(EngineNamed(FirstSet(InputsByPrecedence)))
           ELSE EngineHandle("chromium")

\* The three sources the code consults, in order; each yields one name.
SourcesByPrecedence ==
    << selection.browserName,
       IF Truthy(CliProject) THEN CliProject
       ELSE FirstSet(<< env["PLAYWRIGHT_PROJECT"], env["npm_config_project"] >>),
       FirstSet(<< env["PLAYWRIGHT_BROWSER"], env["BROWSER"],
                   env["npm_config_browser"] >>) >>

\* C9 amended: the inputs form three sources, consulted in order: (1) the
\* explicit argument; (2) the process argument that follows '--project' if
\* there is one, otherwise PLAYWRIGHT_PROJECT, otherwise npm_config_project;
\* (3) PLAYWRIGHT_BROWSER, otherwise BROWSER, otherwise npm_config_browser.
\* Each source yields the first of its inputs that is set (non-empty), and the engine
\* returned is the one named by the first source whose name is a supported
\* engine, chromium if there is none; a set input that names no supported
\* engine hides the later inputs of its own source and passes the choice to
\* the next source.  (For names that are no property names inherited from
\* Object.prototype.)
C9_FirstSourceNamingAnEngineWins ==
    (Selected /\ \A i \in 1..3 : SourcesByPrecedence[i] \notin InheritedKeys)
    => LET named == [i \in 1..3 |-> EngineNamed(SourcesByPrecedence[i])]
       IN  selection.result.browser =
               IF \E i \in 1..3 : named[i] # "none"
               THEN EngineHandle(named[CHOOSE i \in 1..3 :
                        /\ named[i] # "none"
                        /\ \A j \in 1..(i - 1) : named[j] = "none"])
               ELSE EngineHandle("chromium")

\* C9 witness: '--project Edge' names no engine and hides PLAYWRIGHT_PROJECT,
\* which names firefox; webkit, named by BROWSER, has been selected.
C9_Witness ==
    /\ Selected
    /\ selection.browserName = Null
    /\ CliProject = "Edge"
    /\ env["PLAYWRIGHT_PROJECT"] = "Firefox"
    /\ env["PLAYWRIGHT_BROWSER"] = Undefined
    /\ env["BROWSER"] = "webkit"
    /\ selection.result.browser = EngineHandle("webkit")

\* C10 as claimed: the name returned by getBrowserInstance is one of chromium,
\* firefox, webkit and is the name of the engine handle returned with it.
C10_NameIsTheEngineReturned ==
    Selected
    => /\ selection.result.name \in SupportedEngines
       /\ selection.result.browser = EngineHandle(selection.result.name)

----------------------------------------------------------------------------
(* Claims about the session-state file path, checked under SpecPaths *)

\* The engine getBrowserInstance resolves for the inputs of the last call.
ResolvedHandle == GetBrowserInstance(selection.browserName, argv, env).browser

\* C11 as claimed: the path getStateFilePath returns is
\* auth-states/state-<engine>.json under the working directory, where <engine>
\* is the one of chromium, firefox, webkit that getBrowserInstance resolves
\* for the same explicit name, process arguments and environment; so inputs
\* resolving the same engine get the same path and inputs resolving different
\* engines get different paths.
C11_PathIsOfTheResolvedEngine ==
    selection.op = "getStateFilePath"
    => \E engine \in SupportedEngines :
           /\ ResolvedHandle = EngineHandle(engine)
           /\ selection.result = Cwd \o "/auth-states/state-" \o engine \o ".json"


----------------------------------------------------------------------------
(* Claims about authenticate and setupTestEnvironment, checked under SpecAuth *)

\* The engine launched for the authenticate call: the name of the handle
\* getBrowserInstance resolves for its target browser.
LaunchedEngine ==
    CHOOSE engine \in SupportedEngines :
        GetBrowserInstance(auth.targetBrowser, argv, env).browser
            = EngineHandle(engine)

\* C12 as claimed: whichever step of authenticate failed (from the browser
\* launch to the final closes), the call that threw has attempted to close
\* every context and every browser it opened, also when a cleanup close
\* failed, and the error it threw is 'Authentication failed with <engine>: '
\* followed by the message of the failing step.
C12_EveryFailureIsCleanedUpAndWrapped ==
    auth.status = "thrown"
    => /\ auth.context # "none" => "context" \in auth.closeTried
       /\ auth.browser # "none" => "browser" \in auth.closeTried
       /\ auth.message = "Authentication failed with " \o LaunchedEngine
                             \o ": " \o StepError(auth.failed)


\* The state file of the authenticate call.
AuthStateFile == GetStateFilePath(auth.targetBrowser, argv, env)

\* C13 as claimed: an authenticate call that returned has written the state
\* file and has closed both its context and its browser; an authenticate
\* call that threw has not written the state file.
C13_NoPartialSuccess ==
    /\ auth.status = "returned"
           => /\ auth.wrote
              /\ files[AuthStateFile] # Absent
              /\ auth.context = "closed"
              /\ auth.browser = "closed"
    /\ auth.status = "thrown" => ~auth.wrote


\* The authenticate call has ended, one way or the other.
AuthEnded == auth.status \in {"returned", "thrown"}

\* The call got as far as submitting the credentials to the login page.
LoginSubmitted ==
    auth.step > CHOOSE i \in 1..Len(Steps) : Steps[i] = "clickLogin"

\* C14 as claimed: an authenticate call that submitted credentials which the
\* login page does not accept has thrown, and for engine chromium the error
\* message contains 'Authentication failed with chromium'.
C14_RejectedCredentialsThrow ==
    (AuthEnded /\ LoginSubmitted /\ ~auth.accepted)
    => /\ auth.status = "thrown"
       /\ LaunchedEngine = "chromium"
              => \E i \in 1..Len(Steps) :
                     auth.message = "Authentication failed with chromium: "
                                        \o StepError(Steps[i])


\* C15 as claimed: after authenticate(credentials, b) has returned,
\* hasStateFile(b) is true and getStateFilePath(b) is
\* auth-states/state-<b>.json; and an authenticate call for the same target
\* that comes after a successful one and throws leaves the state file present
\* and as the successful call wrote it.
C15_StateFileOutlivesFailedAuthenticate ==
    /\ (auth.status = "returned" /\ Truthy(auth.browserName))
           => /\ HasStateFile(auth.browserName)
              /\ GetStateFilePath(auth.browserName, argv, env)
                     = Cwd \o "/auth-states/state-" \o auth.browserName
                           \o ".json"
    /\ (auth.status = "thrown" /\ auth.afterSuccess)
           => /\ auth.fileBefore # Absent
              /\ files[AuthStateFile] = auth.fileBefore


\* C16 as claimed: once authenticate(credentials, 'chromium') has returned for
\* credentials the login page accepts, a setupTestEnvironment call for any of
\* chromium, firefox, webkit, in which the engine does not fail for a reason
\* of its own, succeeds and returns a browser of that engine with a context
\* and a page holding the logged-in session.
C16_SetupSucceedsForEveryEngine ==
    (/\ auth.status = "returned"
     /\ auth.browserName = "chromium"
     /\ auth.accepted
     /\ setup.op = "setupTestEnvironment"
     /\ setup.browserName \in SupportedEngines
     /\ setup.failing = "none")
    => /\ setup.kind = "ok"
       /\ setup.engine = EngineHandle(setup.browserName)
       /\ setup.open = {"browser", "context", "page"}
       /\ setup.storageState.session = "authenticated"


----------------------------------------------------------------------------
(* Claims about apiUtils' token-authenticated requests, checked under
   SpecClient *)

\* A token-authenticated request has been sent.
RequestSent == request.op = "requestWithToken" /\ request.kind = "ok"

\* C17: the headers of every token-authenticated request that is sent are the
\* token-derived headers (Authorization: Bearer <token>, the token being the
\* AuthManager's or apiUtils' own) together with the caller's headers: every
\* header the caller gave is sent with the caller's value, Authorization
\* included, and every other token-derived header is sent as derived.
C17_CallerHeadersOverrideTokenHeaders ==
    RequestSent
    => /\ request.authHeaders =
              [Authorization |-> "Bearer " \o ToText(IF request.delegated
                                                      THEN apiToken ELSE token)]
       /\ DOMAIN request.sent
              = DOMAIN request.authHeaders \cup DOMAIN request.headers
       /\ \A k \in DOMAIN request.headers :
              request.sent[k] = request.headers[k]
       /\ \A k \in DOMAIN request.authHeaders \ DOMAIN request.headers :
              request.sent[k] = request.authHeaders[k]

\* C17 witness: a request whose caller gave its own Authorization header has
\* been sent with the caller's value in place of the bearer token.
C17_Witness ==
    /\ RequestSent
    /\ "Authorization" \in DOMAIN request.headers
    /\ request.authHeaders["Authorization"] = "Bearer " \o TokenIn("access_token")
    /\ request.sent["Authorization"] = "Basic caller"
    /\ "Accept" \in DOMAIN request.sent


\* C18 as claimed: a token-authenticated request made while apiUtils holds an
\* AuthManager with API credentials set takes its token from the AuthManager,
\* whatever the AuthManager's cache holds, and apiUtils sends no login POST of
\* its own; apiUtils' own cache and login are used only without such an
\* AuthManager.
C18_ConfiguredManagerIsTheTokenSource ==
    request.op = "requestWithToken"
    => /\ (request.managerHeld /\ request.managerConfigured)
              => /\ request.delegated
                 /\ request.posts = << >>
       /\ ~request.delegated
              => ~(request.managerHeld /\ request.managerConfigured)


----------------------------------------------------------------------------
(* Claims about getApiAuthHeaders, checked under SpecHeaders *)

HeadersCall == call.op = "getApiAuthHeaders"

\* What getApiAuthHeaders returns or fails with, common to C20 as claimed
\* and as amended: on success exactly {Authorization: 'Bearer ' + t}, t being
\* the token the cache holds; on failure no headers but the error of
\* getApiToken, which is the configuration error or 'Failed to get API
\* token: ' followed by the cause.
HeadersOrTokenError ==
    /\ call.kind = "ok"
           => /\ Truthy(apiToken)
              /\ call.headers = [Authorization |-> "Bearer " \o apiToken]
    /\ call.kind = "error"
           => /\ call.headers = NoHeaders
              /\ \/ call.cause = "config" /\ call.value = ConfigErrorMessage
                 \/ /\ call.cause # "config"
                    /\ call.value = FetchOutcome(Null, call.response).value
                    /\ \E m \in {"fetch failed", NoTokenMessage,
                                 "Unexpected token < in JSON at position 0",
                                 "API login failed: 401 Unauthorized",
                                 "API login failed: 500 "} :
                           call.value = "Failed to get API token: " \o m

\* C20 as claimed: getApiAuthHeaders returns exactly {Authorization:
\* 'Bearer ' + t} for the cached token t or fails with getApiToken's error,
\* and it sends a login request if and only if the cache was empty when it
\* was called.
C20_RequestIffCacheEmpty ==
    HeadersCall
    => /\ HeadersOrTokenError
       /\ Len(call.sent) = 1 <=> ~call.preCached

\* C20 amended: as claimed, except that a login request (exactly one, to the
\* configured endpoint) is sent if and only if the cache was empty when
\* getApiAuthHeaders was called and the API credentials are set; with the
\* credentials unset it sends nothing and fails with the configuration error,
\* whatever the cache holds.
C20_RequestIffCacheEmptyAndConfigured ==
    HeadersCall
    => /\ HeadersOrTokenError
       /\ call.sent =
              IF ~call.preCached /\ CredentialsSet(apiBaseUrl, apiLoginEndpoint)
              THEN << LoginUrl(apiBaseUrl, apiLoginEndpoint) >>
              ELSE << >>
       /\ ~CredentialsSet(apiBaseUrl, apiLoginEndpoint)
              => (call.kind = "error" /\ call.value = ConfigErrorMessage)

\* C20 witness: called on an empty cache with credentials set,
\* getApiAuthHeaders has sent one login request and returned the bearer header
\* of the token now cached.
C20_Witness ==
    /\ HeadersCall
    /\ ~call.preCached
    /\ Len(call.sent) = 1
    /\ call.kind = "ok"
    /\ call.headers = [Authorization |-> "Bearer " \o TokenIn("access_token")]
    /\ apiToken = TokenIn("access_token")


----------------------------------------------------------------------------
(* Claims about forceNewToken after getApiToken, checked under Spec *)

\* getApiToken has returned firstOk.value (with no clearApiToken or
\* forceNewToken since), and the step is a forceNewToken that returns a token.
ForcedAfterGet ==
    /\ firstOk # NoCall
    /\ call'.op = "forceNewToken"
    /\ call'.kind = "ok"

ClaimedOrder ==
    << "launch", "newContext", "newPage", "goto", "fillUsername",
       "fillPassword", "checkRememberMe", "clickLogin", "waitNetworkIdle",
       "storageState", "closeContext", "closeBrowser" >>

\* The operations of one authenticate call that meets no failure: the wait
\* for network idle is performed twice in a row.
ObservedOrder ==
    << "launch", "newContext", "newPage", "goto", "fillUsername",
       "fillPassword", "checkRememberMe", "clickLogin", "waitNetworkIdle",
       "waitNetworkIdle", "storageState", "closeContext", "closeBrowser" >>

PlaceIn(order, operation) ==
    CHOOSE i \in 1..Len(order) : order[i] = operation

\* The operations of the try block (from the navigation on).
InTryBlock == { ObservedOrder[i] : i \in 4..Len(ObservedOrder) }

\* The best-effort closes of the catch block.
CleanupCloses ==
    { << >>, << "closeContext" >>, << "closeContext", "closeBrowser" >> }

\* C21 as stated: in every execution of authenticate each operation is
\* performed at most once and in the claimed order (so the session state is
\* persisted only after the click and the wait and before the closes, and
\* nothing is performed again after a failure).
C21_EachStepOnceInOrder ==
    \A i \in 1..Len(auth.log) : \A j \in 1..Len(auth.log) :
        i < j => PlaceIn(ClaimedOrder, auth.log[i]) < PlaceIn(ClaimedOrder, auth.log[j])

\* C21 amended: the operations performed are an initial part of the observed
\* order (headless launch, fresh context, page, navigation, two fills, check,
\* click, network-idle wait twice, persist, close context, close browser); a
\* failure ends that part, and what follows a failure of the try block is only
\* the best-effort close of the context and then of the browser, each at most
\* once; the session state is persisted at most once, after the click and
\* both waits and before any close, and never after a failure.
C21_ObservedOrderThenCleanup ==
    \E n \in 0..Len(ObservedOrder) : \E closes \in CleanupCloses :
        /\ auth.log = SubSeq(ObservedOrder, 1, n) \o closes
        /\ (n >= 1 /\ auth.failed # "launch" => auth.headless)
        /\ (auth.status = "running" /\ auth.step = 3
                => auth.session = "anonymous")
        /\ closes # << >> =>
               /\ auth.failed # "none"
               /\ Operation(auth.failed) = ObservedOrder[n]
               /\ auth.failed \in InTryBlock \cup {"waitNetworkIdleAgain"}
        /\ auth.failed # "none" => Operation(auth.failed) = ObservedOrder[n]
        /\ auth.wrote =>
               /\ n >= PlaceIn(ObservedOrder, "storageState")
               /\ auth.failed # "storageState"

\* A call that met no failure has performed all thirteen operations.
C21_Witness ==
    /\ auth.status = "returned"
    /\ auth.log = ObservedOrder
    /\ auth.wrote

(***************************************************************************)
(* C23: setupTestEnvironment after authenticate, under SpecPairs           *)
(***************************************************************************)

\* The last setupTestEnvironment call was made with the browser name of the
\* authenticate call that returned before it.
SetupAfterAuthenticate ==
    /\ auth.op = "authenticate"
    /\ auth.status = "returned"
    /\ setup.op = "setupTestEnvironment"
    /\ setup.browserName = auth.browserName

\* C23: for any browserName argument (none, any letter case, unrecognized),
\* with process arguments and environment unchanged, setupTestEnvironment
\* launches the engine that the preceding successful authenticate with the
\* same argument launched, and loads the session state from exactly the path
\* that call wrote.
C23_SetupLoadsWhatAuthenticateWrote ==
    SetupAfterAuthenticate
    => /\ setup.engine = auth.engine
       /\ setup.stateFilePath = auth.stateFilePath
       /\ files[setup.stateFilePath] # Absent
       /\ setup.failing = "none"
              => /\ setup.kind = "ok"
                 /\ setup.storageState = files[auth.stateFilePath]

\* An unrecognized name in mixed company: authenticate('edge') and
\* setupTestEnvironment('edge') both run the engine the project selects and
\* both use state-edge.json.
C23_Witness ==
    /\ SetupAfterAuthenticate
    /\ auth.browserName = "edge"
    /\ setup.kind = "ok"
    /\ setup.engine = EngineHandle("firefox")
    /\ setup.stateFilePath = StateFileOf("edge")

(***************************************************************************)
(* C24: setApiCredentials and the token cache, under Spec                  *)
(***************************************************************************)

\* C24: setApiCredentials leaves the token cache as it is, and a getApiToken
\* call that follows a setApiCredentials call which changed the base URL or
\* the login path (to set values), on a cache holding a token, returns that
\* token without sending a login request and leaves it in the cache.
C24_CredentialsLeaveTheCache ==
    [][ /\ call'.op = "setApiCredentials" => apiToken' = apiToken
        /\ ( /\ call'.op = "getApiToken"
             /\ call'.afterSet
             /\ Truthy(apiToken)
             /\ CredentialsSet(apiBaseUrl, apiLoginEndpoint) )
           => /\ call'.kind = "ok"
              /\ call'.value = apiToken
              /\ call'.sent = << >>
              /\ apiToken' = apiToken ]_vars

\* getApiToken has returned the cached token right after setApiCredentials
\* pointed the instance elsewhere.
C24_Witness ==
    /\ call.op = "getApiToken"
    /\ call.afterSet
    /\ call.preCached
    /\ call.kind = "ok"
    /\ call.value = apiToken
    /\ call.sent = << >>

(***************************************************************************)
(* C25: apiUtils' own token cache, under SpecClient                        *)
(***************************************************************************)

\* The step is a token-authenticated request that did not go to the
\* AuthManager and posted the fallback login.
FallbackLogin ==
    /\ request'.op = "requestWithToken"
    /\ request' # request
    /\ ~request'.delegated
    /\ request'.posts # << >>

\* The fallback login of the step was answered with success.
FallbackLoginOk ==
    /\ FallbackLogin
    /\ request'.response.type = "http"
    /\ request'.response.ok

\* C25: apiUtils' own token cache changes only in a request that posted once
\* to <apiURL>/login and got a successful answer, and then holds that
\* answer's 'token' field and nothing else; clearApiToken, forceNewToken and
\* setAuthManager leave it as it is; once it holds a token it never changes
\* and no further fallback login is posted; and when the successful answer
\* has no 'token' field the request raises no error, the cache stays empty
\* and the request goes out with 'Bearer undefined'.
C25_FallbackCacheIsItsOwn ==
    [][ /\ token' # token
           => /\ FallbackLoginOk
              /\ request'.posts = << FallbackLoginUrl >>
              /\ token' = request'.response.body["token"]
        /\ Truthy(token)
           => /\ token' = token
              /\ ~FallbackLogin
        /\ (call' # call /\ call'.op \in {"clearApiToken", "forceNewToken"})
           => token' = token
        /\ authManager' # authManager => token' = token
        /\ FallbackLoginOk /\ request'.response.body["token"] = Undefined
           => /\ request'.kind = "ok"
              /\ ~Truthy(token')
              /\ request'.authHeaders = [Authorization |-> "Bearer undefined"]
              /\ request'.sent =
                     Spread(request'.authHeaders, request'.headers) ]_vars

\* A fallback login answered with a body that carries the token under
\* 'access_token' only: nothing is cached and the request has gone out.
C25_Witness ==
    /\ request.op = "requestWithToken"
    /\ ~request.delegated
    /\ request.posts = << FallbackLoginUrl >>
    /\ request.kind = "ok"
    /\ request.response.body["token"] = Undefined
    /\ request.response.body["access_token"] # Undefined
    /\ request.authHeaders = [Authorization |-> "Bearer undefined"]
    /\ ~Truthy(token)

(***************************************************************************)
(* C22: two getApiToken calls that overlap, under SpecOverlap              *)
(***************************************************************************)

\* Both callers began on an empty cache while the other's call was in flight,
\* and both calls have ended.
OverlappedAndEnded ==
    \A c \in Callers : flows[c].pc = "done" /\ flows[c].overlapped

\* The token a login answer carries, or none.
TokenOf(response) ==
    IF response.type = "http" /\ response.ok
    THEN ExtractToken(response.body) ELSE Undefined

\* C22: when two getApiToken calls on one AuthManager overlap on an empty
\* cache, each sends its own login request, each caller that gets a token
\* gets the token of the answer to its own request, and the cache ends up
\* with what the answer processed last carried (last write wins), so the two
\* callers may hold different tokens and the cache may differ from the token
\* one of them got.
C22_LastWriteWins ==
    OverlappedAndEnded
    => /\ \A c \in Callers :
              /\ flows[c].sent = << LoginUrl(apiBaseUrl, apiLoginEndpoint) >>
              /\ flows[c].kind = "ok"
                     => /\ flows[c].value = TokenOf(flows[c].response)
                        /\ Truthy(flows[c].value)
              /\ flows[c].latest => apiToken = TokenOf(flows[c].response)
       /\ Cardinality({c \in Callers : flows[c].latest}) <= 1
       /\ (\E c \in Callers : flows[c].kind = "ok")
              => \E c \in Callers : flows[c].latest

\* Both callers got a token, the tokens differ, and the cache holds the
\* second caller's token, not the first's.
C22_Witness ==
    /\ OverlappedAndEnded
    /\ flows["first"].kind = "ok"
    /\ flows["second"].kind = "ok"
    /\ flows["first"].value # flows["second"].value
    /\ flows["second"].latest
    /\ apiToken = flows["second"].value
    /\ apiToken # flows["first"].value

(***************************************************************************)
(* C26: what an injected context exposes, under SpecInject                 *)
(***************************************************************************)

\* The tokens of the injections that had succeeded when the document in the
\* page was loaded.
InjectedBeforeLoad ==
    { browserContext.scripts[i] : i \in 1..browserContext.installed }

DocumentAfterInjection ==
    browserContext.loaded /\ browserContext.installed >= 1

\* C26 as stated: a document loaded after a successful injection sees the
\* token getApiToken returned during that injection call, and a header
\* builder yielding 'Bearer ' + that token.
C26_DocumentSeesTheInjectedToken ==
    DocumentAfterInjection
    => \A t \in InjectedBeforeLoad :
           /\ browserContext.window.apiToken = t
           /\ browserContext.window.getAuthHeaders
                  = [Authorization |-> "Bearer " \o t]

\* The part of C26 that holds in every state: a document loaded after one or
\* more successful injections sees the token of one of them, and the header
\* builder of the same one; a document loaded with no injection sees none.
ExposesAnInjectedToken ==
    /\ DocumentAfterInjection
       => \E t \in InjectedBeforeLoad :
              /\ browserContext.window.apiToken = t
              /\ browserContext.window.getAuthHeaders
                     = [Authorization |-> "Bearer " \o t]
    /\ browserContext.loaded /\ browserContext.installed = 0
       => browserContext.window = NoWindow

\* C26 amended: a document loaded after successful injections sees the token
\* one of those injection calls got from getApiToken (the token of the only
\* injection when there was one, or when all got the same token); each
\* successful injection installs one init script carrying the token its
\* getApiToken call returned; an injection whose getApiToken or whose
\* addInitScript fails installs none; clearApiToken and forceNewToken leave
\* the context, its scripts and its document as they are.
C26_DocumentSeesAnInjectedToken ==
    [][ /\ ExposesAnInjectedToken'
        /\ ( \/ browserContext'.injection # browserContext.injection
             \/ browserContext'.scripts # browserContext.scripts )
           => /\ call'.op = "getApiToken"
              /\ browserContext'.scripts =
                     IF browserContext'.injection.kind = "ok"
                     THEN Append(browserContext.scripts, call'.value)
                     ELSE browserContext.scripts
              /\ call'.kind = "error"
                     => browserContext'.injection.kind = "error"
              /\ browserContext'.injection.kind = "ok"
                     => /\ call'.kind = "ok"
                        /\ browserContext'.injection.value = call'.value
        /\ (call' # call /\ call'.op \in {"clearApiToken", "forceNewToken"})
           => browserContext' = browserContext ]_vars

\* One injection, then clearApiToken, then a document is loaded: it sees the
\* injected token although the cache is empty.
C26_Witness ==
    /\ DocumentAfterInjection
    /\ Len(browserContext.scripts) = 1
    /\ browserContext.window.apiToken = browserContext.scripts[1]
    /\ browserContext.window.getAuthHeaders
           = [Authorization |-> "Bearer " \o browserContext.scripts[1]]
    /\ call.op = "clearApiToken"
    /\ apiToken = Null

====
